---- MODULE Spec2Model ----
(***************************************************************************)
(* Verification model of PolyOMB_Skills/00002_volatility_market_maker:     *)
(* the risk gate (risk_management.py), the order pricer                    *)
(* (order_pricing.py), the market data loader (market_data_loader.py) and  *)
(* the backtest engine (backtest_engine.py).                               *)
(*                                                                         *)
(* Numbers are fixed-point integers:                                       *)
(*   - times and sleep periods are whole hours;                            *)
(*   - pnl is in percent, spreads and volatilities of the risk gate are in *)
(*     units of 0.01;                                                      *)
(*   - prices of the order pricer are in units of 0.00001.                *)
(***************************************************************************)
EXTENDS Integers, Sequences, FiniteSets, TLC

VARIABLES
    now,            \* the wall clock read by datetime.now(), in hours
    risk_off_until, \* RiskManager.risk_off_until (None when unset)
    sleep_period,   \* RiskManager.sleep_period
    last_trigger,   \* history: clock value and sleep period of the latest trigger
    max_expiry,     \* history: the largest risk_off_until ever set
    call,           \* the latest call of a risk function and what it returned
    quote_pc,       \* the get_order_prices call: "idle", "args" or "done"
    quote_args,     \* the arguments of the get_order_prices call
    quote,          \* the pair returned by get_order_prices
    memory,         \* MarketDataLoader._markets_df and ._market_index
    cache_dir,      \* the files of the cache directory
    load,           \* the latest call of the loader and what it returned
    writer,         \* a second caller writing a cache file
    strategy,       \* position, avg_price and cash of the strategy
    backtest        \* the BacktestEngine.run call and its latest step

vars == <<now, risk_off_until, sleep_period, last_trigger, max_expiry, call,
          quote_pc, quote_args, quote, memory, cache_dir, load, writer,
          strategy, backtest>>

riskVars == <<now, risk_off_until, sleep_period, last_trigger, max_expiry, call>>
quoteVars == <<quote_pc, quote_args, quote>>
loaderVars == <<memory, cache_dir, load, writer>>
btVars == <<strategy, backtest>>

----------------------------------------------------------------------------
(* Bounds *)

MaxTime == 4
MaxSleep == 2

----------------------------------------------------------------------------
(* Values *)

None == -1
NaN == -999

Abs(x) == IF x < 0 THEN -x ELSE x
Max(a, b) == IF a >= b THEN a ELSE b
Min(a, b) == IF a <= b THEN a ELSE b

RiskLevel == {"LOW", "MEDIUM", "HIGH", "CRITICAL"}

\* Inputs of the risk functions
PnlValues == {-6, -5, -2}
SpreadValues == {1, 2, 10}
StopLossThresholds == {-5, -2}
SpreadThresholds == {2, 5}
VolatilityValues == {NaN, 10, 15, 22, 23}
VolatilityThresholds == {15}
PositionValues == {-250, 0, 150, 225, 250, 300}
MaxPositions == {250}
SleepPeriods == 1..MaxSleep

----------------------------------------------------------------------------
(* risk_management.py: pure functions *)

should_trigger_stop_loss_strict(pnl, spread, stop_loss_threshold, spread_threshold) ==
    LET pnl_condition == pnl < stop_loss_threshold
        spread_condition == spread <= spread_threshold
    IN  pnl_condition /\ spread_condition

should_trigger_stop_loss(pnl, spread, stop_loss_threshold, spread_threshold) ==
    LET pnl_condition == pnl <= stop_loss_threshold
        spread_condition == spread <= spread_threshold
    IN  pnl_condition /\ spread_condition

\* volatility >= threshold * num/den with Python's float comparison: a NaN
\* operand makes every comparison false
volatility_ge(volatility, threshold, num, den) ==
    volatility # NaN /\ den * volatility >= num * threshold

volatility_lt(volatility, threshold) ==
    volatility # NaN /\ volatility < threshold

can_open_new_position_ignoring_risk_off(volatility, threshold, in_risk_off) ==
    volatility_lt(volatility, threshold)

can_open_new_position(volatility, threshold, in_risk_off) ==
    IF in_risk_off THEN FALSE
    ELSE volatility_lt(volatility, threshold)

can_close_position_calm_only(volatility) ==
    volatility_lt(volatility, 15)

can_close_position(volatility) == TRUE

is_in_risk_off_period_inclusive(sleep_until, clock) ==
    IF sleep_until = None THEN FALSE
    ELSE clock <= sleep_until

\* clock is the value datetime.now() returns inside the call
is_in_risk_off_period(sleep_until, clock) ==
    IF sleep_until = None THEN FALSE
    ELSE clock < sleep_until

calculate_risk_off_end_time(triggered_at, sleep) == triggered_at + sleep

\* The result dictionary; a call that raises is [exc |-> <exception>]
comprehensive_risk_check(c) ==
    LET result == [exc |-> "none", can_trade |-> TRUE, risk_level |-> "LOW",
                   warnings |-> <<>>, should_stop_loss |-> FALSE]
    IN
    IF c.pnl <= c.stop_loss_threshold /\ c.spread <= c.spread_threshold
    THEN [result EXCEPT !.can_trade = FALSE,
                        !.risk_level = "CRITICAL",
                        !.should_stop_loss = TRUE,
                        !.warnings = Append(@, "Stop loss triggered")]
    ELSE
      LET r2 == IF volatility_ge(c.volatility_3h, c.volatility_threshold, 3, 2)
                THEN [result EXCEPT !.risk_level = "CRITICAL",
                                    !.warnings = Append(@, "Extreme volatility")]
                ELSE IF volatility_ge(c.volatility_3h, c.volatility_threshold, 1, 1)
                THEN [result EXCEPT !.risk_level = "HIGH",
                                    !.warnings = Append(@, "High volatility")]
                ELSE result
          r3 == IF c.in_risk_off_period
                THEN [r2 EXCEPT !.can_trade = FALSE,
                                !.risk_level = "HIGH",
                                !.warnings = Append(@, "In risk-off period")]
                ELSE r2
      IN
      IF Abs(c.position_size) >= c.max_position
      THEN [r3 EXCEPT !.can_trade = FALSE,
                      !.risk_level = "MEDIUM",
                      !.warnings = Append(@, "Max position reached")]
      ELSE IF 10 * Abs(c.position_size) >= 9 * c.max_position
      \* max(result['risk_level'], RiskLevel.MEDIUM): RiskLevel is a plain
      \* Enum, its members are not ordered, max() raises TypeError
      THEN [exc |-> "TypeError"]
      ELSE r3

----------------------------------------------------------------------------
(* risk_management.py: RiskManager *)

is_in_risk_off == is_in_risk_off_period(risk_off_until, now)

Idle == [fn |-> "idle"]

RiskInit ==
    /\ now = 0
    /\ risk_off_until = None
    /\ sleep_period \in SleepPeriods
    /\ last_trigger = [at |-> None, sleep |-> None]
    /\ max_expiry = None
    /\ call = Idle

QuoteIdle ==
    /\ quote_pc = "idle"
    /\ quote_args = <<>>
    /\ quote = <<>>

\* the markets of the metadata table (condition_id)
Markets == {"m1", "m2", "m3"}

\* MarketDataLoader.__init__: nothing loaded in memory
NoMemory == [markets_df |-> "None", market_index |-> [st |-> "None"]]

NoFile == [st |-> "absent"]

\* a cache directory without any cache file
EmptyCacheDir ==
    [markets_cache |-> "absent",
     index_file |-> NoFile,
     trades |-> [m \in Markets |-> NoFile]]

NoWriter == [st |-> "idle"]

LoaderIdle ==
    /\ memory = NoMemory
    /\ cache_dir = EmptyCacheDir
    /\ load = [op |-> "none"]
    /\ writer = NoWriter

\* VolatilityMarketMakerStrategy.__init__
NewStrategy == [position |-> 0, avg_price |-> 0, cash |-> 0]

BacktestIdle ==
    /\ strategy = NewStrategy
    /\ backtest = [pc |-> "idle"]

Init == RiskInit /\ QuoteIdle /\ LoaderIdle /\ BacktestIdle

\* datetime.now() advances between two calls
Tick ==
    /\ now < MaxTime
    /\ now' = now + 1
    /\ call' = Idle
    /\ UNCHANGED <<risk_off_until, sleep_period, last_trigger, max_expiry>>
    /\ UNCHANGED <<quoteVars, loaderVars, btVars>>

\* the new expiry keeps the later of the old and the new one
trigger_risk_off_extending ==
    /\ risk_off_until' = Max(risk_off_until,
                             calculate_risk_off_end_time(now, sleep_period))
    /\ last_trigger' = [at |-> now, sleep |-> sleep_period]
    /\ max_expiry' = Max(max_expiry, risk_off_until')
    /\ call' = Idle
    /\ UNCHANGED <<now, sleep_period>>
    /\ UNCHANGED <<quoteVars, loaderVars, btVars>>

trigger_risk_off ==
    /\ risk_off_until' = calculate_risk_off_end_time(now, sleep_period)
    /\ last_trigger' = [at |-> now, sleep |-> sleep_period]
    /\ max_expiry' = Max(max_expiry, risk_off_until')
    /\ call' = Idle
    /\ UNCHANGED <<now, sleep_period>>
    /\ UNCHANGED <<quoteVars, loaderVars, btVars>>

clear_risk_off ==
    /\ risk_off_until' = None
    /\ call' = Idle
    /\ UNCHANGED <<now, sleep_period, last_trigger, max_expiry>>
    /\ UNCHANGED <<quoteVars, loaderVars, btVars>>

\* the owner assigns another sleep period to the manager
set_sleep_period ==
    /\ \E h \in SleepPeriods :
          /\ h # sleep_period
          /\ sleep_period' = h
    /\ call' = Idle
    /\ UNCHANGED <<now, risk_off_until, last_trigger, max_expiry>>
    /\ UNCHANGED <<quoteVars, loaderVars, btVars>>

----------------------------------------------------------------------------
(* Calls of the risk functions by the owner of the manager; the risk-off   *)
(* flag handed to a function is what is_in_risk_off() returns.             *)

CallShouldTriggerStopLoss ==
    /\ call = Idle
    /\ \E pnl \in PnlValues, spread \in SpreadValues,
          slt \in StopLossThresholds, st \in SpreadThresholds :
          call' = [fn |-> "should_trigger_stop_loss",
                   pnl |-> pnl, spread |-> spread,
                   stop_loss_threshold |-> slt, spread_threshold |-> st,
                   ret |-> should_trigger_stop_loss(pnl, spread, slt, st)]
    /\ UNCHANGED <<now, risk_off_until, sleep_period, last_trigger, max_expiry>>
    /\ UNCHANGED <<quoteVars, loaderVars, btVars>>

CallCanOpenNewPosition ==
    /\ call = Idle
    /\ \E v \in VolatilityValues, th \in VolatilityThresholds :
          call' = [fn |-> "can_open_new_position",
                   volatility |-> v, threshold |-> th,
                   in_risk_off |-> is_in_risk_off,
                   ret |-> can_open_new_position(v, th, is_in_risk_off)]
    /\ UNCHANGED <<now, risk_off_until, sleep_period, last_trigger, max_expiry>>
    /\ UNCHANGED <<quoteVars, loaderVars, btVars>>

CallCanClosePosition ==
    /\ call = Idle
    /\ \E v \in VolatilityValues :
          call' = [fn |-> "can_close_position",
                   volatility |-> v,
                   in_risk_off |-> is_in_risk_off,
                   ret |-> can_close_position(v)]
    /\ UNCHANGED <<now, risk_off_until, sleep_period, last_trigger, max_expiry>>
    /\ UNCHANGED <<quoteVars, loaderVars, btVars>>

CallComprehensiveRiskCheck ==
    /\ call = Idle
    /\ \E pnl \in PnlValues, spread \in SpreadValues, v \in VolatilityValues,
          pos \in PositionValues, mp \in MaxPositions,
          th \in VolatilityThresholds :
          LET c == [pnl |-> pnl, spread |-> spread, volatility_3h |-> v,
                    position_size |-> pos, max_position |-> mp,
                    in_risk_off_period |-> is_in_risk_off,
                    stop_loss_threshold |-> -5, spread_threshold |-> 2,
                    volatility_threshold |-> th]
          IN  call' = [fn |-> "comprehensive_risk_check", ctx |-> c,
                       ret |-> comprehensive_risk_check(c)]
    /\ UNCHANGED <<now, risk_off_until, sleep_period, last_trigger, max_expiry>>
    /\ UNCHANGED <<quoteVars, loaderVars, btVars>>

Next ==
    \/ Tick
    \/ trigger_risk_off
    \/ clear_risk_off
    \/ set_sleep_period
    \/ CallShouldTriggerStopLoss
    \/ CallCanOpenNewPosition
    \/ CallCanClosePosition
    \/ CallComprehensiveRiskCheck

Spec == Init /\ [][Next]_vars

----------------------------------------------------------------------------
(* order_pricing.py *)

\* one price unit is 0.00001: 0.01 is 1000, 0.99 is 99000

MinPrice == 1000
MaxPrice == 99000

\* Arguments of get_order_prices.  A missing side of the book is 0
\* (order_book.get(..., 0.0) or 0.0), a missing depth is 0 (... or 1000).
BookPrices == {0, 1000, 1100, 3000, 49500, 50000, 51000, 97000, 98900, 99000}
DepthSums == {<<0, 0>>, <<400, 400>>, <<3000, 3000>>, <<12000, 400>>}
AvgPrices == {0, 2000, 50000, 98000}
PositionSizes == {-10, 0, 10}
TickSizes == {0, 10, 100, 1000, 10000}

\* price / tick_size is a float division: when the exact quotient is halfway
\* between two integers the float quotient is that value (0), or lies just
\* below (-1) or just above (1) it, depending on the operands
FloatErrors == {-1, 0, 1}

\* the tick sizes the pricer is exercised with (0.0001, 0.001, 0.01)
SupportedTickSizes == {10, 100, 1000}

QuoteArgs ==
    { [best_bid |-> bb, best_ask |-> ba,
       bid_sum |-> d[1], ask_sum |-> d[2],
       avg_price |-> ap, position_size |-> ps, tick_size |-> t,
       err_bid |-> eb, err_ask |-> ea] :
         bb \in BookPrices, ba \in BookPrices, d \in DepthSums,
         ap \in AvgPrices, ps \in PositionSizes, t \in TickSizes,
         eb \in FloatErrors, ea \in FloatErrors }

\* Python's round(x) of the float quotient n/d (d > 0): the nearest integer;
\* a quotient that is exactly halfway goes to the even neighbour, one that
\* the float division left just below or above halfway goes down or up
python_round(n, d, err) ==
    LET q == n \div d
        r == n - q * d
    IN  IF 2 * r < d THEN q
        ELSE IF 2 * r > d THEN q + 1
        ELSE IF err < 0 THEN q
        ELSE IF err > 0 THEN q + 1
        ELSE IF q % 2 = 0 THEN q ELSE q + 1

round_to_tick_size_unrounded(price, tick_size, err) == price

round_to_tick_size(price, tick_size, err) ==
    IF tick_size <= 0 THEN price
    ELSE python_round(price, tick_size, err) * tick_size

\* depth_factor in percent, from bid_sum + ask_sum = 2 * avg_depth
depth_factor(bid_sum, ask_sum) ==
    LET twice_avg_depth == bid_sum + ask_sum
    IN  IF twice_avg_depth > 2 * 5000 THEN 80
        ELSE IF twice_avg_depth > 2 * 2000 THEN 90
        ELSE IF twice_avg_depth > 2 * 500 THEN 100
        ELSE 120

clamp_price_floor_only(price) == Max(MinPrice, price)

\* max(0.01, min(price, 0.99))
clamp_price(price) == Max(MinPrice, Min(price, MaxPrice))

\* risk_management.py: avg_price * (1 + take_profit_threshold / 100)
DefaultTakeProfitPct == 3

calculate_take_profit_price(avg_price, take_profit_threshold) ==
    IF avg_price <= 0 THEN 0
    ELSE (avg_price * (100 + take_profit_threshold)) \div 100

adjust_ask_for_take_profit(current_ask, avg_price, take_profit_threshold) ==
    IF avg_price <= 0 THEN current_ask
    ELSE Max(current_ask,
             calculate_take_profit_price(avg_price, take_profit_threshold))

bid_behind_best_at_touch(bid, best_bid, tick_size) == Min(bid, best_bid)

\* bid = min(bid, best_bid - tick_size)
bid_behind_best(bid, best_bid, tick_size) == Min(bid, best_bid - tick_size)

\* ask = max(ask, best_ask + tick_size)
ask_behind_best(ask, best_ask, tick_size) == Max(ask, best_ask + tick_size)

get_order_prices(a) ==
    LET tick_size == a.tick_size
        bb0 == a.best_bid
        ba0 == a.best_ask
        best_bid == IF bb0 = 0 /\ ba0 = 0 THEN 49000
                    ELSE IF bb0 = 0 THEN ba0 - 2000
                    ELSE bb0
        best_ask == IF bb0 = 0 /\ ba0 = 0 THEN 51000
                    ELSE IF bb0 = 0 THEN ba0
                    ELSE IF ba0 = 0 THEN bb0 + 2000
                    ELSE ba0
        mid_price == (best_bid + best_ask) \div 2
        base_spread == 2000
        bid_sum == IF a.bid_sum = 0 THEN 1000 ELSE a.bid_sum
        ask_sum == IF a.ask_sum = 0 THEN 1000 ELSE a.ask_sum
        spread0 == (base_spread * depth_factor(bid_sum, ask_sum)) \div 100
        spread == Max(1000, Min(spread0, 5000))
        bid1 == mid_price - spread \div 2
        ask1 == mid_price + spread \div 2
        bid2 == bid_behind_best(bid1, best_bid, tick_size)
        ask2 == ask_behind_best(ask1, best_ask, tick_size)
        ask3 == IF a.position_size > 0 /\ a.avg_price > 0
                THEN LET min_ask_for_profit == (a.avg_price * 103) \div 100
                         min_ask_for_cost == (a.avg_price * 97) \div 100
                         min_ask == Max(min_ask_for_cost,
                                        Min(best_ask, min_ask_for_profit))
                     IN  Max(ask2, min_ask)
                ELSE ask2
        bid3 == IF a.position_size < 0 /\ a.avg_price > 0
                THEN LET max_bid_for_profit == (a.avg_price * 97) \div 100
                         max_bid_for_cost == (a.avg_price * 103) \div 100
                         max_bid == Min(max_bid_for_cost,
                                        Max(best_bid, max_bid_for_profit))
                     IN  Min(bid2, max_bid)
                ELSE bid2
        bid4 == round_to_tick_size(bid3, tick_size, a.err_bid)
        ask4 == round_to_tick_size(ask3, tick_size, a.err_ask)
        ask5 == IF bid4 >= ask4
                THEN round_to_tick_size(mid_price + spread \div 2, tick_size,
                                        a.err_ask)
                ELSE ask4
        bid5 == IF bid4 >= ask4
                THEN round_to_tick_size(ask5 - spread, tick_size, a.err_bid)
                ELSE bid4
    IN  <<clamp_price(bid5), clamp_price(ask5)>>

\* The pricer is a pure function: the arguments are drawn when the call
\* starts and the call returns the quote.
InitPricing ==
    /\ now = 0
    /\ risk_off_until = None
    /\ sleep_period = 1
    /\ last_trigger = [at |-> None, sleep |-> None]
    /\ max_expiry = None
    /\ call = Idle
    /\ quote_pc = "args"
    /\ quote_args \in QuoteArgs
    /\ quote = <<>>
    /\ LoaderIdle
    /\ BacktestIdle

GetOrderPrices ==
    /\ quote_pc = "args"
    /\ quote' = get_order_prices(quote_args)
    /\ quote_pc' = "done"
    /\ UNCHANGED quote_args
    /\ UNCHANGED <<riskVars, loaderVars, btVars>>

NextPricing == GetOrderPrices

SpecPricing == InitPricing /\ [][NextPricing]_vars

\* round_to_tick_size called on its own: prices 0.000, 0.005, ..., 0.700 at
\* the ticks 0, 0.001 and 0.01
RoundPrices == { 500 * k : k \in 0..140 }
RoundTickSizes == {0, 100, 1000}

RoundArgs ==
    { [fn |-> "round_to_tick_size", pc |-> "args",
       price |-> p, tick_size |-> t, err |-> e] :
         p \in RoundPrices, t \in RoundTickSizes, e \in FloatErrors }

InitRounding ==
    /\ now = 0
    /\ risk_off_until = None
    /\ sleep_period = 1
    /\ last_trigger = [at |-> None, sleep |-> None]
    /\ max_expiry = None
    /\ call \in RoundArgs
    /\ QuoteIdle
    /\ LoaderIdle
    /\ BacktestIdle

RoundToTickSize ==
    /\ call.fn = "round_to_tick_size"
    /\ call.pc = "args"
    /\ call' = [fn |-> "round_to_tick_size", pc |-> "done",
                price |-> call.price, tick_size |-> call.tick_size,
                err |-> call.err,
                ret |-> round_to_tick_size(call.price, call.tick_size,
                                           call.err)]
    /\ UNCHANGED <<now, risk_off_until, sleep_period, last_trigger, max_expiry>>
    /\ UNCHANGED <<quoteVars, loaderVars, btVars>>

NextRounding == RoundToTickSize

SpecRounding == InitRounding /\ [][NextRounding]_vars

----------------------------------------------------------------------------
(* market_data_loader.py *)

\* clob_token_ids of each market; "m3" has none
MarketTokens ==
    [m \in Markets |-> IF m = "m1" THEN {"a"}
                       ELSE IF m = "m2" THEN {"b"} ELSE {}]

Trade(id, block_number, timestamp, taker, maker) ==
    [id |-> id, block_number |-> block_number, timestamp |-> timestamp,
     taker_asset_id |-> taker, maker_asset_id |-> maker]

\* The partitioned source: trades_{start}_{end}.parquet in block order.
\* Token "a" is the taker in the first file and only the maker in the
\* second; token "b" is never the taker.  The rows of the first file are
\* not in block order.
TradesFiles ==
    << << Trade(1, 3, 2, "a", "x"), Trade(2, 4, 2, "x", "b"),
          Trade(3, 1, 1, "a", "x"), Trade(6, 2, 1, "x", "b") >>,
       << Trade(4, 12, 3, "x", "a"), Trade(5, 11, 3, "x", "b") >> >>

\* start_time and end_time of a call (None when not given)
TimeBounds == {None, 2}

\* trades_files[:20]
IndexFileLimit == 20

\* markets_df.head(min(100, len(markets_df))): every market of the table
SampleMarkets == Markets

\* the files the index build looks at
IndexedFiles == 1..Min(IndexFileLimit, Len(TradesFiles))

\* set(df['taker_asset_id'].astype(str).unique())
FileTokens(f) ==
    { TradesFiles[f][i].taker_asset_id : i \in 1..Len(TradesFiles[f]) }

\* the index built from the source: the files in which one of the
\* market's tokens is a taker; a market without such a file has no entry
BuildIndex ==
    [m \in Markets |->
        IF m \notin SampleMarkets THEN {}
        ELSE { f \in IndexedFiles : MarketTokens[m] \cap FileTokens(f) # {} }]

\* market_trades = df[mask].copy(); market_trades['market_id'] = market_id
MarketRow(r, market_id) ==
    [id |-> r.id, block_number |-> r.block_number, timestamp |-> r.timestamp,
     taker_asset_id |-> r.taker_asset_id, maker_asset_id |-> r.maker_asset_id,
     market_id |-> market_id]

RECURSIVE MarketRows(_, _)
MarketRows(rows, market_id) ==
    IF rows = <<>> THEN <<>>
    ELSE LET r == Head(rows)
             rest == MarketRows(Tail(rows), market_id)
         IN  IF \/ r.taker_asset_id \in MarketTokens[market_id]
                \/ r.maker_asset_id \in MarketTokens[market_id]
             THEN <<MarketRow(r, market_id)>> \o rest
             ELSE rest

\* pd.concat of the market's rows of the files of block_ranges, from file f on
RECURSIVE ReadFiles(_, _, _)
ReadFiles(f, block_ranges, market_id) ==
    IF f > Len(TradesFiles) THEN <<>>
    ELSE (IF f \in block_ranges THEN MarketRows(TradesFiles[f], market_id)
          ELSE <<>>)
         \o ReadFiles(f + 1, block_ranges, market_id)

\* result.sort_values('block_number')
RECURSIVE InsertByBlock(_, _)
InsertByBlock(r, sorted) ==
    IF sorted = <<>> THEN <<r>>
    ELSE IF r.block_number <= Head(sorted).block_number THEN <<r>> \o sorted
    ELSE <<Head(sorted)>> \o InsertByBlock(r, Tail(sorted))

RECURSIVE sort_values(_)
sort_values(rows) ==
    IF rows = <<>> THEN <<>>
    ELSE InsertByBlock(rows[Len(rows)], sort_values(SubSeq(rows, 1, Len(rows) - 1)))

InTimeRange(r, start_time, end_time) ==
    /\ start_time = None \/ r.timestamp >= start_time
    /\ end_time = None \/ r.timestamp <= end_time

\* _filter_by_time, also the "if start_time or end_time" around its calls
filter_by_time(rows, start_time, end_time) ==
    SelectSeq(rows, LAMBDA r : InTimeRange(r, start_time, end_time))

\* Each operator below returns the loader's memory and cache directory after
\* the call together with what the call returned; exc is TRUE when the call
\* raised.

\* _load_markets: from memory, else from the cached copy, else from the
\* source, which is then copied to the cache
load_markets(mem, dir) ==
    IF mem.markets_df = "loaded"
    THEN [exc |-> FALSE, mem |-> mem, dir |-> dir]
    ELSE IF dir.markets_cache # "absent"
    THEN IF dir.markets_cache = "ok"
         THEN [exc |-> FALSE, mem |-> [mem EXCEPT !.markets_df = "loaded"],
               dir |-> dir]
         ELSE [exc |-> TRUE, mem |-> mem, dir |-> dir]
    ELSE [exc |-> FALSE, mem |-> [mem EXCEPT !.markets_df = "loaded"],
          dir |-> [dir EXCEPT !.markets_cache = "ok"]]

\* _build_market_index: from memory, else from the index file, else built
\* from the source and written to the index file
build_market_index(mem, dir) ==
    IF mem.market_index.st = "built"
    THEN [exc |-> FALSE, mem |-> mem, dir |-> dir,
          index |-> mem.market_index.idx]
    ELSE IF dir.index_file.st # "absent"
    THEN IF dir.index_file.st = "ok"
         THEN [exc |-> FALSE,
               mem |-> [mem EXCEPT !.market_index =
                            [st |-> "built", idx |-> dir.index_file.idx]],
               dir |-> dir, index |-> dir.index_file.idx]
         ELSE [exc |-> TRUE, mem |-> mem, dir |-> dir, index |-> BuildIndex]
    ELSE LET lm == load_markets(mem, dir)
         IN  IF lm.exc
             THEN [exc |-> TRUE, mem |-> lm.mem, dir |-> lm.dir,
                   index |-> BuildIndex]
             ELSE [exc |-> FALSE,
                   mem |-> [lm.mem EXCEPT !.market_index =
                                [st |-> "built", idx |-> BuildIndex]],
                   dir |-> [lm.dir EXCEPT !.index_file =
                                [st |-> "ok", idx |-> BuildIndex]],
                   index |-> BuildIndex]

cached_rows_filtered(result, start_time, end_time) ==
    filter_by_time(result, start_time, end_time)

\* result.to_parquet(cache_path) comes before the time filter
cached_rows(result, start_time, end_time) == result

Returned(exc, hit, rows, mem, dir) ==
    [exc |-> exc, hit |-> hit, rows |-> rows, mem |-> mem, dir |-> dir]

get_market_trades(mem, dir, market_id, start_time, end_time, use_cache) ==
    LET entry == dir.trades[market_id]
    IN  IF use_cache /\ entry.st # "absent"
        THEN IF entry.st = "ok"
             THEN Returned(FALSE, TRUE,
                           filter_by_time(entry.rows, start_time, end_time),
                           mem, dir)
             ELSE Returned(TRUE, TRUE, <<>>, mem, dir)
        ELSE
        LET lm == load_markets(mem, dir)
        IN  IF lm.exc THEN Returned(TRUE, FALSE, <<>>, lm.mem, lm.dir)
            ELSE IF MarketTokens[market_id] = {}
            THEN Returned(FALSE, FALSE, <<>>, lm.mem, lm.dir)
            ELSE
            LET bi == build_market_index(lm.mem, lm.dir)
            IN  IF bi.exc THEN Returned(TRUE, FALSE, <<>>, bi.mem, bi.dir)
                ELSE
                LET block_ranges == IF bi.index[market_id] = {}
                                    THEN 1..Len(TradesFiles)
                                    ELSE bi.index[market_id]
                    all_trades == ReadFiles(1, block_ranges, market_id)
                    result == sort_values(all_trades)
                    written ==
                        [st |-> "ok",
                         rows |-> cached_rows(result, start_time, end_time),
                         by |-> <<start_time, end_time>>]
                IN  IF all_trades = <<>>
                    THEN Returned(FALSE, FALSE, <<>>, bi.mem, bi.dir)
                    ELSE Returned(FALSE, FALSE,
                                  filter_by_time(result, start_time, end_time),
                                  bi.mem,
                                  IF use_cache
                                  THEN [bi.dir EXCEPT
                                            !.trades[market_id] = written]
                                  ELSE bi.dir)

clear_cache_keeping_index(mem, dir) ==
    [mem |-> NoMemory,
     dir |-> [EmptyCacheDir EXCEPT !.index_file = dir.index_file]]

\* clear_cache: unlinks the trade caches, the index file and the cached
\* metadata table, and resets the memory
clear_cache(mem, dir) == [mem |-> NoMemory, dir |-> EmptyCacheDir]

\* a loader constructed over the cache directory of an earlier one
NewLoader ==
    /\ memory' = NoMemory
    /\ load' = [op |-> "none"]
    /\ UNCHANGED <<cache_dir, writer>>
    /\ UNCHANGED <<riskVars, quoteVars, btVars>>

GetMarketTrades ==
    \E market_id \in Markets, start_time \in TimeBounds,
       end_time \in TimeBounds, use_cache \in BOOLEAN :
        LET r == get_market_trades(memory, cache_dir, market_id,
                                   start_time, end_time, use_cache)
        IN  /\ memory' = r.mem
            /\ cache_dir' = r.dir
            /\ load' = [op |-> "get_market_trades", market_id |-> market_id,
                        start_time |-> start_time, end_time |-> end_time,
                        use_cache |-> use_cache, exc |-> r.exc,
                        hit |-> r.hit, rows |-> r.rows,
                        read |-> IF use_cache
                                 THEN cache_dir.trades[market_id].st
                                 ELSE "unread",
                        after_clear |-> load.op = "clear_cache"]
            /\ UNCHANGED writer
            /\ UNCHANGED <<riskVars, quoteVars, btVars>>

ClearCache ==
    /\ LET r == clear_cache(memory, cache_dir)
       IN  /\ memory' = r.mem
           /\ cache_dir' = r.dir
    /\ load' = [op |-> "clear_cache",
                had_files |-> cache_dir # EmptyCacheDir,
                had_memory |-> memory # NoMemory]
    /\ UNCHANGED writer
    /\ UNCHANGED <<riskVars, quoteVars, btVars>>

\* the loader alone, over a source that does not change
InitLoader ==
    RiskInit /\ sleep_period = 1 /\ QuoteIdle /\ LoaderIdle /\ BacktestIdle

NextLoader == GetMarketTrades \/ ClearCache \/ NewLoader

SpecLoader == InitLoader /\ [][NextLoader]_vars

\* A second caller sharing the cache directory.  On its miss path it writes
\* a cache file the way the loader does: to_parquet(cache_path) and
\* open(index_file, 'wb') create the file under its final name and fill it
\* afterwards, so the file exists before it is complete.
WritableFiles == {"markets_cache", "index_file", "m1", "m2"}

FileState(dir, f) ==
    IF f = "markets_cache" THEN dir.markets_cache
    ELSE IF f = "index_file" THEN dir.index_file.st
    ELSE dir.trades[f].st

\* the merged, ordered trades of a market as the miss path computes them
FullResult(market_id) ==
    LET block_ranges == IF BuildIndex[market_id] = {}
                        THEN 1..Len(TradesFiles)
                        ELSE BuildIndex[market_id]
    IN  sort_values(ReadFiles(1, block_ranges, market_id))

WithFile(dir, f, st) ==
    IF f = "markets_cache" THEN [dir EXCEPT !.markets_cache = st]
    ELSE IF f = "index_file"
    THEN [dir EXCEPT !.index_file = [st |-> st, idx |-> BuildIndex]]
    ELSE [dir EXCEPT !.trades[f] =
              [st |-> st, rows |-> FullResult(f), by |-> <<None, None>>]]

OtherWriterOpens ==
    \E f \in WritableFiles :
        /\ writer = NoWriter
        /\ FileState(cache_dir, f) = "absent"
        /\ cache_dir' = WithFile(cache_dir, f, "partial")
        /\ writer' = [st |-> "writing", file |-> f]
        /\ UNCHANGED <<memory, load>>
        /\ UNCHANGED <<riskVars, quoteVars, btVars>>

OtherWriterCloses ==
    /\ writer # NoWriter
    /\ cache_dir' = WithFile(cache_dir, writer.file, "ok")
    /\ writer' = NoWriter
    /\ UNCHANGED <<memory, load>>
    /\ UNCHANGED <<riskVars, quoteVars, btVars>>

NextLoaderConcurrent ==
    GetMarketTrades \/ OtherWriterOpens \/ OtherWriterCloses

SpecLoaderConcurrent == InitLoader /\ [][NextLoaderConcurrent]_vars

\* A cache file that exists and can no longer be read (truncated by a crash
\* during a write, damaged on disk).
CorruptCacheFile ==
    \E f \in WritableFiles :
        /\ FileState(cache_dir, f) = "ok"
        /\ cache_dir' = WithFile(cache_dir, f, "corrupt")
        /\ UNCHANGED <<memory, load, writer>>
        /\ UNCHANGED <<riskVars, quoteVars, btVars>>

NextLoaderFaults ==
    GetMarketTrades \/ ClearCache \/ NewLoader \/ CorruptCacheFile

SpecLoaderFaults == InitLoader /\ [][NextLoaderFaults]_vars

----------------------------------------------------------------------------
(* backtest_engine.py *)

\* the largest table a run is given, and the largest trade size
MaxRows == 11
MaxTradeSize == 3

\* class Signal(Enum)
Signal == {"BUY", "SELL", "HOLD"}

\* row['price'] in price units, row['3_hour'] in units of 0.01
RowPrices == {40000, 60000}
RowVolatilities == {NaN, 10, 20}

\* VolatilityMarketMakerStrategy.generate_signal: every branch returns HOLD
generate_signal(volatility, threshold, in_risk_off) ==
    LET v == IF volatility = NaN THEN 0 ELSE volatility
    IN  IF in_risk_off THEN "HOLD"
        ELSE IF v >= threshold THEN "HOLD"
        ELSE "HOLD"

\* What self.strategy.generate_signal(row) can return to the engine: the
\* strategy is the engine's constructor argument and a strategy that
\* extends the policy returns BUY or SELL as well.
StrategySignals(volatility) ==
    {generate_signal(volatility, 15, FALSE)} \cup Signal

\* VolatilityMarketMakerStrategy.reset
reset(strat) == NewStrategy

step_buy_sets_avg_price(strat, signal, price) ==
    [strategy |-> IF signal = "BUY" THEN [strat EXCEPT !.avg_price = price]
                  ELSE strat,
     pnl |-> 0]

step_sell_unchecked(strat, signal, price) ==
    [strategy |-> IF signal = "SELL" THEN [strat EXCEPT !.position = @ - 1]
                  ELSE strat,
     pnl |-> 0]

\* BacktestEngine.step for the signal the strategy returned: BUY is "pass",
\* SELL computes the pnl of the open position, nothing touches the strategy
step(strat, signal, price) ==
    [strategy |-> strat,
     pnl |-> IF signal = "SELL" /\ strat.position > 0 /\ strat.avg_price > 0
             THEN (price - strat.avg_price) * strat.position
             ELSE 0]

\* row.get('trade_size', 50), row.get('max_size', 250), row.get('min_size', 5)
DefaultTradeSize == 50
DefaultMaxSize == 250
DefaultMinSize == 5

\* order_pricing.calculate_order_size
calculate_order_size(position, trade_size, max_size, min_size, other_position) ==
    LET room_for_buy == Max(0, max_size - position)
        buy0 == Min(trade_size, room_for_buy)
        buy1 == IF other_position > min_size THEN 0 ELSE buy0
        sell0 == Min(trade_size, position)
    IN  [buy_amount |-> IF buy1 < min_size THEN 0 ELSE buy1,
         sell_amount |-> IF sell0 < min_size THEN 0 ELSE sell0]

RECURSIVE SumSeq(_)
SumSeq(xs) == IF xs = <<>> THEN 0 ELSE Head(xs) + SumSeq(Tail(xs))

Started(rows) ==
    [pc |-> "running", rows |-> rows, done |-> 0, pnls |-> <<>>,
     last |-> [signal |-> "none"], result |-> [st |-> "none"]]

\* the BacktestResult built at the end of run
Result(pnls) ==
    [st |-> "BacktestResult", total_pnl |-> SumSeq(pnls), points |-> Len(pnls)]

\* BacktestEngine(strategy).run(data) is entered with a table of any length
Run ==
    /\ backtest.pc = "idle"
    /\ \E rows \in 0..MaxRows : backtest' = Started(rows)
    /\ UNCHANGED strategy
    /\ UNCHANGED <<riskVars, quoteVars, loaderVars>>

\* strategy.run_backtest(data): reset, an empty table returns an empty
\* BacktestResult at once, any other table goes to BacktestEngine.run
RunBacktest ==
    /\ backtest.pc = "idle"
    /\ strategy' = reset(strategy)
    /\ \E rows \in 0..MaxRows :
          backtest' = IF rows = 0
                      THEN [Started(0) EXCEPT !.pc = "returned",
                                              !.result = Result(<<>>)]
                      ELSE Started(rows)
    /\ UNCHANGED <<riskVars, quoteVars, loaderVars>>

\* one iteration of "for _, row in data.iterrows(): self.step(row)"
Step ==
    /\ backtest.pc = "running"
    /\ backtest.done < backtest.rows
    /\ \E price \in RowPrices, volatility \in RowVolatilities :
         \E signal \in StrategySignals(volatility) :
            LET r == step(strategy, signal, price)
            IN  /\ strategy' = r.strategy
                /\ backtest' =
                     [backtest EXCEPT
                        !.done = @ + 1,
                        !.pnls = Append(@, r.pnl),
                        !.last = [signal |-> signal, price |-> price,
                                  before |-> strategy]]
    /\ UNCHANGED <<riskVars, quoteVars, loaderVars>>

\* the loop is over: run builds and returns the BacktestResult
Finish ==
    /\ backtest.pc = "running"
    /\ backtest.done = backtest.rows
    /\ backtest' = [backtest EXCEPT !.pc = "returned",
                                    !.result = Result(backtest.pnls)]
    /\ UNCHANGED strategy
    /\ UNCHANGED <<riskVars, quoteVars, loaderVars>>

InitBacktest ==
    RiskInit /\ sleep_period = 1 /\ QuoteIdle /\ LoaderIdle /\ BacktestIdle

NextBacktest == Run \/ RunBacktest \/ Step \/ Finish

SpecBacktest == InitBacktest /\ [][NextBacktest]_vars

\* Runs repeated on one table.  A row is its price and the signal the
\* strategy returns for it; BacktestEngine.pnl_history belongs to the engine
\* and outlives a run, trades and pnls are locals of run.
MaxTableLen == 2
MaxRuns == 2

TableRows == { [price |-> p, signal |-> sg] : p \in RowPrices, sg \in Signal }
Tables == UNION { [1..n -> TableRows] : n \in 0..MaxTableLen }

run_pnls_from_history(pnls, pnl_history) == pnl_history

\* result.pnl_series = pd.Series(pnls)
run_pnls(pnls, pnl_history) == pnls

\* the BacktestResult of a run: result.trades = trades, the local list
\* that nothing appends to
RunResult(pnls, pnl_history) ==
    [trades |-> <<>>,
     pnl_series |-> run_pnls(pnls, pnl_history),
     total_pnl |-> SumSeq(run_pnls(pnls, pnl_history))]

InitRepeatedRuns ==
    /\ RiskInit /\ sleep_period = 1 /\ QuoteIdle /\ LoaderIdle
    /\ strategy = NewStrategy
    /\ \E t \in Tables :
          backtest = [pc |-> "idle", table |-> t, done |-> 0, pnls |-> <<>>,
                      pnl_history |-> <<>>, results |-> <<>>, starts |-> <<>>]

\* engine.run(table) on the engine and strategy of the runs before
RunAgain ==
    /\ backtest.pc \in {"idle", "returned"}
    /\ Len(backtest.results) < MaxRuns
    /\ backtest' = [backtest EXCEPT !.pc = "running", !.done = 0,
                                    !.pnls = <<>>,
                                    !.starts = Append(@, strategy)]
    /\ UNCHANGED strategy
    /\ UNCHANGED <<riskVars, quoteVars, loaderVars>>

\* strategy.run_backtest(table): reset, then a new BacktestEngine runs
RunBacktestAgain ==
    /\ backtest.pc \in {"idle", "returned"}
    /\ Len(backtest.results) < MaxRuns
    /\ strategy' = reset(strategy)
    /\ backtest' = [backtest EXCEPT !.pc = "running", !.done = 0,
                                    !.pnls = <<>>, !.pnl_history = <<>>,
                                    !.starts = Append(@, reset(strategy))]
    /\ UNCHANGED <<riskVars, quoteVars, loaderVars>>

StepRow ==
    /\ backtest.pc = "running"
    /\ backtest.done < Len(backtest.table)
    /\ LET row == backtest.table[backtest.done + 1]
           r == step(strategy, row.signal, row.price)
       IN  /\ strategy' = r.strategy
           /\ backtest' = [backtest EXCEPT
                              !.done = @ + 1,
                              !.pnls = Append(@, r.pnl),
                              !.pnl_history = Append(@, r.pnl)]
    /\ UNCHANGED <<riskVars, quoteVars, loaderVars>>

ReturnResult ==
    /\ backtest.pc = "running"
    /\ backtest.done = Len(backtest.table)
    /\ backtest' = [backtest EXCEPT
                       !.pc = "returned",
                       !.results = Append(@, RunResult(backtest.pnls,
                                                       backtest.pnl_history))]
    /\ UNCHANGED strategy
    /\ UNCHANGED <<riskVars, quoteVars, loaderVars>>

NextRepeatedRuns == RunAgain \/ RunBacktestAgain \/ StepRow \/ ReturnResult

SpecRepeatedRuns == InitRepeatedRuns /\ [][NextRepeatedRuns]_vars

\* The statistics functions called on their own.  A ratio the code returns
\* as a float is the exact fraction num / den, den > 0.
MaxCurveLen == 3
MaxTrades == 3

CurveValues == {-10, 0, 10, 20}

\* the curve of test_max_drawdown_calculation
ExampleCurve == <<0, 10, 20, 15, 25, 20, 30, 25, 20, 35>>

PnlSeries ==
    UNION { [1..n -> CurveValues] : n \in 0..MaxCurveLen } \cup {ExampleCurve}

\* Trade.pnl of each trade of a list: None for a trade without pnl
TradePnls == {None, -5, 0, 5}
TradeLists == UNION { [1..n -> TradePnls] : n \in 0..MaxTrades }

Fraction(num, den) == [num |-> num, den |-> den]

FractionLess(a, b) == a.num * b.den < b.num * a.den

\* rows i.. of the loop of calculate_max_drawdown: cumulative is the cumsum
\* and running_max its expanding maximum up to row i - 1, lowest the minimum
\* of drawdown_pct so far
RECURSIVE DrawdownPct(_, _, _, _, _)
DrawdownPct(pnl_series, i, cumulative, running_max, lowest) ==
    IF i > Len(pnl_series) THEN lowest
    ELSE LET cum == cumulative + pnl_series[i]
             rmax == IF i = 1 THEN cum ELSE Max(running_max, cum)
             pct == IF rmax > 0 THEN Fraction((cum - rmax) * 100, rmax)
                    ELSE Fraction(0, 1)
             low == IF i = 1 \/ FractionLess(pct, lowest) THEN pct ELSE lowest
         IN  DrawdownPct(pnl_series, i + 1, cum, rmax, low)

calculate_max_drawdown(pnl_series) ==
    IF Len(pnl_series) = 0 THEN Fraction(0, 1)
    ELSE DrawdownPct(pnl_series, 1, 0, 0, Fraction(0, 1))

IsWinning(pnl) == pnl # None /\ pnl > 0
IsCompleted(pnl) == pnl # None

\* len(winning), winning the trades with t.pnl and t.pnl > 0
CountWinning(trades) ==
    Cardinality({ i \in 1..Len(trades) : IsWinning(trades[i]) })

\* the trades of the list that have a pnl
CountCompleted(trades) ==
    Cardinality({ i \in 1..Len(trades) : IsCompleted(trades[i]) })

calculate_win_rate(trades) ==
    IF Len(trades) = 0 THEN Fraction(0, 1)
    ELSE Fraction(CountWinning(trades), Len(trades))

StatisticsArgs ==
    { [fn |-> "calculate_max_drawdown", pc |-> "args", arg |-> c] :
        c \in PnlSeries }
    \cup { [fn |-> "calculate_win_rate", pc |-> "args", arg |-> t] :
             t \in TradeLists }

InitStatistics ==
    /\ now = 0
    /\ risk_off_until = None
    /\ sleep_period = 1
    /\ last_trigger = [at |-> None, sleep |-> None]
    /\ max_expiry = None
    /\ call \in StatisticsArgs
    /\ QuoteIdle
    /\ LoaderIdle
    /\ BacktestIdle

CalculateMaxDrawdown ==
    /\ call.fn = "calculate_max_drawdown"
    /\ call.pc = "args"
    /\ call' = [fn |-> call.fn, pc |-> "done", arg |-> call.arg,
                ret |-> calculate_max_drawdown(call.arg)]
    /\ UNCHANGED <<now, risk_off_until, sleep_period, last_trigger, max_expiry>>
    /\ UNCHANGED <<quoteVars, loaderVars, btVars>>

CalculateWinRate ==
    /\ call.fn = "calculate_win_rate"
    /\ call.pc = "args"
    /\ call' = [fn |-> call.fn, pc |-> "done", arg |-> call.arg,
                ret |-> calculate_win_rate(call.arg)]
    /\ UNCHANGED <<now, risk_off_until, sleep_period, last_trigger, max_expiry>>
    /\ UNCHANGED <<quoteVars, loaderVars, btVars>>

NextStatistics == CalculateMaxDrawdown \/ CalculateWinRate

SpecStatistics == InitStatistics /\ [][NextStatistics]_vars

----------------------------------------------------------------------------
(* Properties of the risk gate *)

StopLossCondition(c) ==
    should_trigger_stop_loss(c.pnl, c.spread, c.stop_loss_threshold,
                             c.spread_threshold)

\* C1: should_trigger_stop_loss returns true exactly when
\* pnl <= stop_loss_threshold and spread <= spread_threshold; both
\* comparisons are inclusive and a spread above the threshold never triggers.
C1_StopLossExactlyWhenBothHold ==
    call.fn = "should_trigger_stop_loss" =>
        (call.ret <=> (/\ call.pnl <= call.stop_loss_threshold
                       /\ call.spread <= call.spread_threshold))

C1_Witness ==
    /\ call.fn = "should_trigger_stop_loss"
    /\ call.pnl = call.stop_loss_threshold
    /\ call.spread = call.spread_threshold
    /\ call.ret

\* C2: a risk evaluation made while the gate is Normal that finds the
\* stop-loss condition true leaves the gate in RiskOff: risk_off_until is
\* now + sleep_period and is_in_risk_off reports true.
C2_StopLossEvaluationEntersRiskOff ==
    (/\ call.fn = "comprehensive_risk_check"
     /\ ~call.ctx.in_risk_off_period
     /\ StopLossCondition(call.ctx))
    => (/\ risk_off_until = calculate_risk_off_end_time(now, sleep_period)
        /\ is_in_risk_off)

\* C3: risk-off ends by time alone: with risk_off_until set by the latest
\* trigger at time t, is_in_risk_off is true exactly while
\* now < t + sleep period; while risk_off_until is unset it is false.
C3_RiskOffEndsByTime ==
    IF risk_off_until = None
    THEN ~is_in_risk_off
    ELSE is_in_risk_off <=> now < last_trigger.at + last_trigger.sleep

C3_Witness ==
    /\ risk_off_until # None
    /\ now > last_trigger.at
    /\ now = last_trigger.at + last_trigger.sleep
    /\ ~is_in_risk_off

\* C4: after any sequence of triggers risk_off_until is the time of the most
\* recent trigger plus the sleep period then in force, not the maximum of the
\* earlier expiries.
C4_TriggerReplacesExpiry ==
    risk_off_until # None =>
        risk_off_until = last_trigger.at + last_trigger.sleep

C4_Witness ==
    /\ risk_off_until # None
    /\ risk_off_until < max_expiry
    /\ risk_off_until = last_trigger.at + last_trigger.sleep

\* C5: can_open_new_position is false whenever the gate is in RiskOff and
\* whenever volatility >= threshold; it is true only when the gate is Normal
\* and the volatility is below the threshold.
C5_OpenOnlyWhenNormalAndCalm ==
    call.fn = "can_open_new_position" =>
        /\ is_in_risk_off => ~call.ret
        /\ volatility_ge(call.volatility, call.threshold, 1, 1) => ~call.ret
        /\ call.ret => (/\ ~is_in_risk_off
                        /\ call.volatility # NaN
                        /\ call.volatility < call.threshold)

C5_Witness ==
    /\ call.fn = "can_open_new_position"
    /\ is_in_risk_off
    /\ call.volatility # NaN
    /\ call.volatility < call.threshold
    /\ ~call.ret

C7_RiskOffIsHighAndBlocks ==
    (/\ call.fn = "comprehensive_risk_check"
     /\ ~StopLossCondition(call.ctx)
     /\ call.ctx.in_risk_off_period)
    => (/\ call.ret.exc = "none"
        /\ call.ret.can_trade = FALSE
        /\ call.ret.risk_level = "HIGH")

\* C8: a volatility breach alone (no stop-loss, risk-off flag clear, position
\* below max_position, volatility >= volatility_threshold) gives
\* can_trade = true with risk_level MEDIUM, CRITICAL only for a severe breach.
C8_VolatilityBreachIsMediumAndTrades ==
    (/\ call.fn = "comprehensive_risk_check"
     /\ ~StopLossCondition(call.ctx)
     /\ ~call.ctx.in_risk_off_period
     /\ Abs(call.ctx.position_size) < call.ctx.max_position
     /\ volatility_ge(call.ctx.volatility_3h, call.ctx.volatility_threshold, 1, 1))
    => (/\ call.ret.exc = "none"
        /\ call.ret.can_trade = TRUE
        /\ IF volatility_ge(call.ctx.volatility_3h,
                            call.ctx.volatility_threshold, 3, 2)
           THEN call.ret.risk_level \in {"MEDIUM", "CRITICAL"}
           ELSE call.ret.risk_level = "MEDIUM")

\* C30: comprehensive_risk_check is total: for every pnl, spread,
\* volatility, position size up to and beyond max_position and risk-off
\* flag it returns a result with a risk_level of LOW, MEDIUM, HIGH or
\* CRITICAL and raises nothing.
C30_RiskCheckIsTotal ==
    call.fn = "comprehensive_risk_check" =>
        /\ call.ret.exc = "none"
        /\ call.ret.risk_level \in RiskLevel

----------------------------------------------------------------------------
(* Properties of the order pricer *)

\* the book is empty, one-sided, or has 0.01 <= best_bid < best_ask <= 0.99
ValidBook(a) ==
    \/ a.best_bid = 0 /\ a.best_ask = 0
    \/ a.best_bid = 0 /\ a.best_ask \in MinPrice..MaxPrice
    \/ a.best_ask = 0 /\ a.best_bid \in MinPrice..MaxPrice
    \/ MinPrice <= a.best_bid /\ a.best_bid < a.best_ask /\ a.best_ask <= MaxPrice

\* C9: for every empty, one-sided or uncrossed book within [0.01, 0.99] and
\* every avg_price, position size and tick size, get_order_prices returns
\* bid < ask with both prices in [0.01, 0.99].
C9_QuoteOrderedAndInRange ==
    (quote_pc = "done" /\ ValidBook(quote_args)) =>
        /\ quote[1] < quote[2]
        /\ MinPrice <= quote[1] /\ quote[1] <= MaxPrice
        /\ MinPrice <= quote[2] /\ quote[2] <= MaxPrice

C9_Witness ==
    /\ quote_pc = "done"
    /\ quote_args.best_bid = 98900
    /\ quote_args.best_ask = 99000
    /\ quote[2] = MaxPrice
    /\ quote[1] < quote[2]

\* C10: both prices returned by get_order_prices are integer multiples of
\* the tick size, for every supported tick size and every order book, also
\* when the final clamp to [0.01, 0.99] changes a price.
C10_QuoteTickAligned ==
    (quote_pc = "done" /\ quote_args.tick_size \in SupportedTickSizes) =>
        /\ quote[1] % quote_args.tick_size = 0
        /\ quote[2] % quote_args.tick_size = 0

\* best_bid = 0.01: the bid computed is at most 0.01 - tick, the clamp raises it
C10_Witness ==
    /\ quote_pc = "done"
    /\ quote_args.tick_size \in SupportedTickSizes
    /\ quote_args.best_bid = MinPrice
    /\ quote[1] = MinPrice
    /\ quote[1] % quote_args.tick_size = 0

\* both sides of the book are present
BothSides(a) == a.best_bid > 0 /\ a.best_ask > 0

\* both sides present and quoted on the grid of a positive tick
BookOnTickGrid(a) ==
    /\ BothSides(a)
    /\ a.tick_size > 0
    /\ a.best_bid % a.tick_size = 0
    /\ a.best_ask % a.tick_size = 0

\* C11 as stated: for every order book with both sides present and every
\* inventory, the returned bid is at least one tick below best_bid and the
\* returned ask at least one tick above best_ask.
C11_QuoteBehindTouch ==
    (quote_pc = "done" /\ BothSides(quote_args)) =>
        /\ quote[1] <= quote_args.best_bid - quote_args.tick_size
        /\ quote[2] >= quote_args.best_ask + quote_args.tick_size

\* C11 amended: for every book with both sides present whose best
\* prices are multiples of a positive tick, and every inventory, the bid is
\* at most max(0.01, best_bid - tick) and the ask at least
\* min(0.99, best_ask + tick): one tick behind the touch except where the
\* final clamp to [0.01, 0.99] holds the price at the bound.
C11_QuoteBehindTouchOrAtBound ==
    (quote_pc = "done" /\ BookOnTickGrid(quote_args)) =>
        /\ quote[1] <= Max(MinPrice, quote_args.best_bid - quote_args.tick_size)
        /\ quote[2] >= Min(MaxPrice, quote_args.best_ask + quote_args.tick_size)

\* the pull behind the touch decides both prices
C11_Witness ==
    /\ quote_pc = "done"
    /\ BookOnTickGrid(quote_args)
    /\ quote_args.position_size > 0
    /\ quote[1] = quote_args.best_bid - quote_args.tick_size
    /\ quote[2] = quote_args.best_ask + quote_args.tick_size

\* the quote of the same book with no inventory: the market-based quote
MarketBasedQuote(a) == get_order_prices([a EXCEPT !.position_size = 0])

\* C12: whenever a long position exists (position_size > 0 and
\* avg_price > 0) the ask returned is at least the take-profit price
\* 1.03 x avg_price, up to one tick of rounding and the 0.99 cap, and is
\* never below the market-based ask.
C12_LongAskAtLeastTakeProfit ==
    (/\ quote_pc = "done"
     /\ quote_args.position_size > 0
     /\ quote_args.avg_price > 0) =>
        /\ quote[2] + quote_args.tick_size >=
               Min(MaxPrice,
                   adjust_ask_for_take_profit(0, quote_args.avg_price,
                                              DefaultTakeProfitPct))
        /\ quote[2] >= MarketBasedQuote(quote_args)[2]

----------------------------------------------------------------------------
(* Properties of round_to_tick_size *)

\* C13: round_to_tick_size returns the nearest multiple of the tick, and
\* the upper tick for every price exactly halfway between two adjacent
\* ticks (0.655 at tick 0.01 gives 0.66).
C13_RoundsHalfUp ==
    (/\ call.fn = "round_to_tick_size"
     /\ call.pc = "done"
     /\ call.tick_size > 0) =>
        LET r == call.price % call.tick_size
            lower == call.price - r
        IN  call.ret = IF 2 * r < call.tick_size THEN lower
                       ELSE lower + call.tick_size

----------------------------------------------------------------------------
(* Properties of the market data loader *)

\* what the miss path returns for the arguments of the latest call, from
\* the source as it is
ColdLoad ==
    get_market_trades(memory, cache_dir, load.market_id, load.start_time,
                      load.end_time, FALSE).rows

\* C14: a get_market_trades call served from the trade cache returns the
\* same ordered trade sequence as a cold load of the same market and time
\* range, also when the call that wrote the cache used another time range.
C14_CacheHitEqualsColdLoad ==
    (load.op = "get_market_trades" /\ load.hit /\ ~load.exc) =>
        load.rows = ColdLoad

\* a hit on a cache written by a call with another time range, where the
\* time filter removes rows
C14_Witness ==
    /\ load.op = "get_market_trades"
    /\ load.hit
    /\ ~load.exc
    /\ cache_dir.trades[load.market_id].by # <<load.start_time, load.end_time>>
    /\ load.rows # <<>>
    /\ Len(load.rows) < Len(cache_dir.trades[load.market_id].rows)

\* C15: cache files are written atomically, so no get_market_trades call
\* observes a partially written file: it never reads a partial trade cache
\* and never fails on a partial index file or metadata cache.
C15_NoPartialFileObserved ==
    load.op = "get_market_trades" =>
        /\ load.read # "partial"
        /\ ~load.exc

C17_CorruptCacheIsAMiss ==
    load.op = "get_market_trades" =>
        /\ ~load.exc
        /\ load.rows = filter_by_time(FullResult(load.market_id),
                                      load.start_time, load.end_time)

----------------------------------------------------------------------------
(* Properties of the backtest engine *)

\* the smallest table the simulator accepts
MinRows == 10

\* C18: a run on an empty table, or on a table with fewer than 10 rows,
\* ends with a validation error: it never processes a row and never
\* returns a BacktestResult.
C18_ShortTableIsRejected ==
    (backtest.pc # "idle" /\ backtest.rows < MinRows) =>
        /\ backtest.pc \in {"running", "raised"}
        /\ backtest.done = 0
        /\ backtest.result.st = "none"

\* C19: a step that executes a BUY of some size s > 0 at the row's price p
\* from (position q, avg_price a, cash c) leaves position q + s, avg_price
\* (q*a + s*p) / (q + s) and cash c - s*p.
C19_BuyUpdatesPositionAndCash ==
    (backtest.pc # "idle" /\ backtest.last.signal = "BUY") =>
        \E s \in 1..MaxTradeSize :
            LET q == backtest.last.before.position
                a == backtest.last.before.avg_price
                c == backtest.last.before.cash
                p == backtest.last.price
            IN  /\ strategy.position = q + s
                /\ strategy.avg_price * (q + s) = q * a + s * p
                /\ strategy.cash = c - s * p
                /\ strategy.cash < c

C21_BuySizeIsRoomUnderLimit ==
    (backtest.pc # "idle" /\ backtest.last.signal = "BUY") =>
        LET q == backtest.last.before.position
            size == calculate_order_size(q, DefaultTradeSize, DefaultMaxSize,
                                         DefaultMinSize, 0).buy_amount
        IN  /\ size = IF Min(DefaultTradeSize, DefaultMaxSize - q) < DefaultMinSize
                      THEN 0
                      ELSE Min(DefaultTradeSize, DefaultMaxSize - q)
            /\ strategy.position = q + size

\* the trades of the source, of every partition
SourceTrades ==
    UNION { { TradesFiles[f][i] : i \in 1..Len(TradesFiles[f]) } :
            f \in 1..Len(TradesFiles) }

\* C29: a get_market_trades call that misses the cache and reads the source
\* returns every trade of the source whose maker or taker instrument
\* belongs to the market, also when the market has an index entry.
C29_MissReturnsEveryTradeOfMarket ==
    (load.op = "get_market_trades" /\ ~load.hit /\ ~load.exc) =>
        { load.rows[i].id : i \in 1..Len(load.rows) } =
            { r.id : r \in
                { t \in SourceTrades :
                    /\ \/ t.taker_asset_id \in MarketTokens[load.market_id]
                       \/ t.maker_asset_id \in MarketTokens[load.market_id]
                    /\ InTimeRange(t, load.start_time, load.end_time) } }

\* the position limits and order sizes a configuration can hold
MaxPositionSizes == {0, 2, DefaultMaxSize}
OrderSizes == 1..MaxTradeSize

----------------------------------------------------------------------------
(* Properties of the statistics functions *)

RECURSIVE MaxOfPrefix(_, _)
MaxOfPrefix(curve, i) ==
    IF i = 1 THEN curve[1] ELSE Max(curve[i], MaxOfPrefix(curve, i - 1))

\* the minimum over i of curve[i] - max(curve[1..i])
RECURSIVE LowestBelowPeak(_, _)
LowestBelowPeak(curve, i) ==
    LET d == curve[i] - MaxOfPrefix(curve, i)
    IN  IF i = 1 THEN d ELSE Min(d, LowestBelowPeak(curve, i - 1))

\* C22: calculate_max_drawdown of a cumulative PnL curve is the minimum over
\* i of curve[i] - max(curve[0..i]) in PnL units, 0 for the empty curve and
\* -10 for [0,10,20,15,25,20,30,25,20,35].
C22_MaxDrawdownIsLowestBelowPeak ==
    (call.fn = "calculate_max_drawdown" /\ call.pc = "done") =>
        LET expected == IF Len(call.arg) = 0 THEN 0
                        ELSE LowestBelowPeak(call.arg, Len(call.arg))
        IN  /\ call.ret.num = expected * call.ret.den
            /\ call.arg = ExampleCurve => expected = -10

\* C23: calculate_win_rate is the number of trades with pnl > 0 divided by
\* the number of trades with a pnl, and 0 when no trade has a pnl.
C23_WinRateOverCompletedTrades ==
    (call.fn = "calculate_win_rate" /\ call.pc = "done") =>
        LET completed == CountCompleted(call.arg)
            winning == CountWinning(call.arg)
        IN  IF completed = 0 THEN call.ret.num = 0
            ELSE call.ret.num * completed = winning * call.ret.den


----------------------------------------------------------------------------
(* volatility_calc.py *)

\* Prices lie on the grid 0.25, 0.5, 1.0 (units of 0.00001), so that the log
\* of a ratio of two of them is a whole multiple of ln 2; a volatility is
\* held as its square, a fraction in units of (ln 2)^2.
MaxPrices == 3
MaxDfRows == 3

GridPrices == {25000, 50000, 100000}
PriceValues == {NaN, 0} \cup GridPrices
PriceSeqs == UNION { [1..n -> PriceValues] : n \in 0..MaxPrices }

Log2(p) == CASE p = 25000 -> 0 [] p = 50000 -> 1 [] p = 100000 -> 2

\* np.log(price / price.shift(1)) of one row, in units of ln 2
LogReturn(prev, cur) == Log2(cur) - Log2(prev)

VolNaN == [st |-> "nan", squared |-> Fraction(0, 1)]
VolValue(f) == [st |-> "value", squared |-> f]
VolRaise == [st |-> "ValueError", squared |-> Fraction(0, 1)]

RECURSIVE SumSquares(_)
SumSquares(xs) ==
    IF xs = <<>> THEN 0 ELSE Head(xs) * Head(xs) + SumSquares(Tail(xs))

\* Series.std(ddof=1): NaN for fewer than two values, else
\* sum((x - mean)^2) / (n - 1), here multiplied out over n * (n - 1)
std(xs) ==
    LET n == Len(xs)
    IN  IF n < 2 THEN VolNaN
        ELSE VolValue(Fraction(n * SumSquares(xs) - SumSeq(xs) * SumSeq(xs),
                               n * (n - 1)))

IsNotNaN(p) == p # NaN
IsPositive(p) == p > 0

\* the valid prices: prices.dropna(), then prices[prices > 0]
ValidPrices(prices) == SelectSeq(SelectSeq(prices, IsNotNaN), IsPositive)

calculate_volatility(prices) ==
    IF Len(prices) = 0 THEN VolRaise
    ELSE IF Len(prices) < 2 THEN VolRaise
    ELSE LET clean == ValidPrices(prices)
             log_returns == [i \in 1..(Len(clean) - 1) |->
                                LogReturn(clean[i], clean[i + 1])]
         IN  IF Len(clean) < 2 THEN VolValue(Fraction(0, 1))
             ELSE IF Len(log_returns) = 0 THEN VolValue(Fraction(0, 1))
             ELSE std(log_returns)

\* the rows of a DataFrame: timestamp in hours, price on the grid
Timestamps == 1..3
DfRows == { [timestamp |-> t, price |-> p] : t \in Timestamps,
                                             p \in {25000, 50000} }
DataFrames == UNION { [1..n -> DfRows] : n \in 0..MaxDfRows }
Windows == {1, 3}
MinPeriods == {1, 2}

RECURSIVE InsertByTimestamp(_, _)
InsertByTimestamp(r, sorted) ==
    IF sorted = <<>> THEN <<r>>
    ELSE IF r.timestamp < Head(sorted).timestamp THEN <<r>> \o sorted
    ELSE <<Head(sorted)>> \o InsertByTimestamp(r, Tail(sorted))

\* df.sort_values(timestamp_col), rows of equal timestamp keeping their order
RECURSIVE sort_by_timestamp(_)
sort_by_timestamp(df) ==
    IF df = <<>> THEN <<>>
    ELSE InsertByTimestamp(df[Len(df)],
                           sort_by_timestamp(SubSeq(df, 1, Len(df) - 1)))

\* the log returns the window of sorted row j holds: those of rows i <= j
\* with timestamp in (timestamp[j] - window, timestamp[j]]; row 1 has none
RECURSIVE WindowReturns(_, _, _, _)
WindowReturns(sorted, j, window, i) ==
    IF i > j THEN <<>>
    ELSE IF i >= 2 /\ sorted[i].timestamp > sorted[j].timestamp - window
         THEN <<LogReturn(sorted[i - 1].price, sorted[i].price)>>
              \o WindowReturns(sorted, j, window, i + 1)
         ELSE WindowReturns(sorted, j, window, i + 1)

\* rolling(window, min_periods).std(ddof=1) at sorted row j
RollingStd(sorted, j, window, min_periods) ==
    LET obs == WindowReturns(sorted, j, window, 1)
    IN  IF Len(obs) < min_periods THEN VolNaN ELSE std(obs)

\* reset_index() numbers the sorted rows 0..n-1 and sort_index() keeps them
\* so: element j is the volatility of the j-th row by time
calculate_rolling_volatility(df, window, min_periods) ==
    LET sorted == sort_by_timestamp(df)
    IN  [j \in 1..Len(sorted) |-> RollingStd(sorted, j, window, min_periods)]

\* df[output_col] = vol_series.values: by position
add_volatility_column(df, window, min_periods) ==
    LET vol_series == calculate_rolling_volatility(df, window, min_periods)
    IN  [i \in 1..Len(df) |->
            [timestamp |-> df[i].timestamp, price |-> df[i].price,
             volatility |-> vol_series[i]]]

VolatilityArgs ==
    { [fn |-> "calculate_volatility", pc |-> "args", arg |-> ps,
       window |-> 0, min_periods |-> 0] : ps \in PriceSeqs }
    \cup { [fn |-> f, pc |-> "args", arg |-> df, window |-> w,
            min_periods |-> m] :
             f \in {"calculate_rolling_volatility", "add_volatility_column"},
             df \in DataFrames, w \in Windows, m \in MinPeriods }

InitVolatility ==
    /\ now = 0
    /\ risk_off_until = None
    /\ sleep_period = 1
    /\ last_trigger = [at |-> None, sleep |-> None]
    /\ max_expiry = None
    /\ call \in VolatilityArgs
    /\ QuoteIdle
    /\ LoaderIdle
    /\ BacktestIdle

Returns(ret) ==
    /\ call' = [fn |-> call.fn, pc |-> "done", arg |-> call.arg,
                window |-> call.window, min_periods |-> call.min_periods,
                ret |-> ret]
    /\ UNCHANGED <<now, risk_off_until, sleep_period, last_trigger, max_expiry>>
    /\ UNCHANGED <<quoteVars, loaderVars, btVars>>

CalculateVolatility ==
    /\ call.fn = "calculate_volatility"
    /\ call.pc = "args"
    /\ Returns(calculate_volatility(call.arg))

CalculateRollingVolatility ==
    /\ call.fn = "calculate_rolling_volatility"
    /\ call.pc = "args"
    /\ Returns(calculate_rolling_volatility(call.arg, call.window,
                                            call.min_periods))

AddVolatilityColumn ==
    /\ call.fn = "add_volatility_column"
    /\ call.pc = "args"
    /\ Returns(add_volatility_column(call.arg, call.window, call.min_periods))

NextVolatility ==
    CalculateVolatility \/ CalculateRollingVolatility \/ AddVolatilityColumn

SpecVolatility == InitVolatility /\ [][NextVolatility]_vars

----------------------------------------------------------------------------
(* Properties of the volatility functions *)

IsConstant(prices) == \A i \in 1..Len(prices) : prices[i] = prices[1]

\* C25: a constant price sequence of two or more valid prices has
\* volatility exactly 0, never NaN.
C25_ConstantPricesGiveZero ==
    (/\ call.fn = "calculate_volatility"
     /\ call.pc = "done"
     /\ Len(call.arg) >= 2
     /\ ValidPrices(call.arg) = call.arg
     /\ IsConstant(call.arg))
    => (call.ret.st = "value" /\ call.ret.squared.num = 0)

\* C26: a sequence with fewer than two valid prices, whatever its length,
\* raises the insufficient-data error and does not return a volatility.
C26_TooFewValidPricesRaises ==
    (/\ call.fn = "calculate_volatility"
     /\ call.pc = "done"
     /\ Len(ValidPrices(call.arg)) < 2)
    => call.ret.st = "ValueError"

\* the position input row i takes in the sorted table
SortedPosition(df, i) ==
    1 + Cardinality({ j \in 1..Len(df) : df[j].timestamp < df[i].timestamp })
      + Cardinality({ j \in 1..(i - 1) : df[j].timestamp = df[i].timestamp })

\* the volatility at the row of each input row, in the order of the input
calculate_rolling_volatility_by_input_row(df, window, min_periods) ==
    LET sorted == sort_by_timestamp(df)
    IN  [i \in 1..Len(df) |->
            RollingStd(sorted, SortedPosition(df, i), window, min_periods)]

\* C27: the rolling volatility has the length of the input and its element i
\* is the windowed volatility at the timestamp of input row i, in every
\* order of the rows; add_volatility_column gives each row its own value.
C27_RollingVolatilityAlignedToInput ==
    /\ (call.fn = "calculate_rolling_volatility" /\ call.pc = "done")
       => call.ret = calculate_rolling_volatility_by_input_row(
                         call.arg, call.window, call.min_periods)
    /\ (call.fn = "add_volatility_column" /\ call.pc = "done")
       => /\ Len(call.ret) = Len(call.arg)
          /\ \A i \in 1..Len(call.arg) :
                call.ret[i].volatility =
                    calculate_rolling_volatility_by_input_row(
                        call.arg, call.window, call.min_periods)[i]

====
